---- MODULE Spec2Model ----
(***************************************************************************)
(* A model of pihole_downloader.py: the domain validator, the line         *)
(* extractor, the blocklist normalizer (optimize_blocklist), the worker    *)
(* pipeline (run / process_blocklist) and the aggregation of the           *)
(* production lists (create_production_lists).                             *)
(*                                                                         *)
(* A Python str is a sequence of one-character strings; an undecodable     *)
(* byte of a fetched buffer is the pseudo-character BadByte.               *)
(***************************************************************************)
EXTENDS Integers, Sequences, FiniteSets, TLC

VARIABLES
    token, valid, vpc,
    xline, xdomain, xpc,
    in_content, in_flags, opc, oi, loc, ret, raised,
    categories, domain_stats, prod, rpc,
    blocklists, threads, calls, stats, failed_lists

vVars == <<token, valid, vpc>>
xVars == <<xline, xdomain, xpc>>
oVars == <<in_content, in_flags, opc, oi, loc, ret, raised>>
aVars == <<categories, domain_stats, prod, rpc>>
pVars == <<blocklists, threads, calls, stats, failed_lists>>

----------------------------------------------------------------------------
(* Characters                                                              *)

LowerSeq == <<"a", "b", "c", "d", "e", "f", "g", "h", "i", "j", "k", "l", "m", "n", "o", "p", "q", "r", "s", "t", "u", "v", "w", "x", "y", "z">>
UpperSeq == <<"A", "B", "C", "D", "E", "F", "G", "H", "I", "J", "K", "L", "M", "N", "O", "P", "Q", "R", "S", "T", "U", "V", "W", "X", "Y", "Z">>
Digit == {"0", "1", "2", "3", "4", "5", "6", "7", "8", "9"}
Lower == {LowerSeq[i] : i \in 1..Len(LowerSeq)}
Upper == {UpperSeq[i] : i \in 1..Len(UpperSeq)}
\* [a-zA-Z0-9]
Alnum == Lower \cup Upper \cup Digit
\* \s of the re module and the characters str.strip() removes
Space == {" ", "\t", "\n", "\r"}
\* the line boundaries of str.splitlines()
LineBreak == {"\n", "\r"}
\* a byte that is not valid UTF-8: bytes.decode(errors='ignore') drops it
BadByte == "xFF"
\* the characters of the model in code point order (the order of sorted())
CodePointSeq == <<"\t", "\n", "\r", " ", "!", "#", "$", "*", "-", ".", "/", "0", "1", "2", "3", "4", "5", "6", "7", "8", "9", ":", "?", "A", "B", "C", "D", "E", "F", "G", "H", "I", "J", "K", "L", "M", "N", "O", "P", "Q", "R", "S", "T", "U", "V", "W", "X", "Y", "Z", "[", "]", "^", "_", "a", "b", "c", "d", "e", "f", "g", "h", "i", "j", "k", "l", "m", "n", "o", "p", "q", "r", "s", "t", "u", "v", "w", "x", "y", "z", "|">>

Ord(c) == CHOOSE i \in 1..Len(CodePointSeq) : CodePointSeq[i] = c

\* str.lower() on one character
LowerChar(c) ==
    IF c \in Upper
    THEN LowerSeq[CHOOSE i \in 1..Len(UpperSeq) : UpperSeq[i] = c]
    ELSE c

----------------------------------------------------------------------------
(* Strings                                                                 *)

Rep(c, n) == [i \in 1..n |-> c]

StartsWith(s, p) == Len(s) >= Len(p) /\ SubSeq(s, 1, Len(p)) = p

EndsWith(s, p) == Len(s) >= Len(p) /\ SubSeq(s, Len(s) - Len(p) + 1, Len(s)) = p

Drop(s, n) == SubSeq(s, n + 1, Len(s))

MinOf(S) == CHOOSE x \in S : \A y \in S : x <= y

\* where '$' of a pattern without re.MULTILINE can stand when the match must
\* end at the end of s: the end of s, or just before a final newline
DollarEnd(s) == IF Len(s) > 0 /\ s[Len(s)] = "\n" THEN Len(s) - 1 ELSE Len(s)

----------------------------------------------------------------------------
(* Domain validator: DOMAIN_PATTERN and is_valid_domain                    *)

\* {0,61} of DOMAIN_PATTERN: the interior of a label
MaxInterior == 61
\* len(domain) > 253
MaxDomainLen == 253

\* [a-zA-Z0-9](?:[a-zA-Z0-9-]{0,61}[a-zA-Z0-9])? on s[lo..hi]
LabelMatch(s, lo, hi) ==
    /\ hi - lo + 1 >= 1
    /\ hi - lo + 1 <= MaxInterior + 2
    /\ s[lo] \in Alnum
    /\ s[hi] \in Alnum
    /\ \A i \in lo..hi : s[i] \in Alnum \cup {"-"}

\* TldMatch as it would be with the optional group of the other labels
TldMatch_AsLabel(s, lo, hi) == LabelMatch(s, lo, hi)

\* [a-zA-Z0-9][a-zA-Z0-9-]{0,61}[a-zA-Z0-9] on s[lo..hi]: the last label has
\* no optional group, so it is at least two characters long
TldMatch(s, lo, hi) ==
    /\ hi - lo + 1 >= 2
    /\ hi - lo + 1 <= MaxInterior + 2
    /\ s[lo] \in Alnum
    /\ s[hi] \in Alnum
    /\ \A i \in lo..hi : s[i] \in Alnum \cup {"-"}

\* DOMAIN_PATTERN.match(s): ^(?:label\.)+tld$.  No label holds a '.', so the
\* match splits s at its dots: at least one label followed by a dot, then the
\* last label.
DOMAIN_PATTERN(s) ==
    LET n == DollarEnd(s)
        dots == {i \in 1..n : s[i] = "."}
        starts == {1} \cup {i + 1 : i \in dots}
        EndOf(b) == IF \E d \in dots : d >= b
                    THEN MinOf({d \in dots : d >= b}) - 1
                    ELSE n
    IN  /\ dots # {}
        /\ \A b \in starts :
              IF EndOf(b) = n /\ ~(\E d \in dots : d >= b)
              THEN TldMatch(s, b, n)
              ELSE LabelMatch(s, b, EndOf(b))

\* is_valid_domain with the wildcard stripped before the length is measured
is_valid_domain_StripFirst(domain) ==
    IF domain = <<>> \/ domain = <<"l", "o", "c", "a", "l", "h", "o", "s", "t">> \/ EndsWith(domain, <<".", "l", "o", "c", "a", "l">>)
    THEN FALSE
    ELSE LET d == IF StartsWith(domain, <<"*", ".">>) THEN Drop(domain, 2) ELSE domain
         IN  IF Len(d) > MaxDomainLen THEN FALSE ELSE DOMAIN_PATTERN(d)

is_valid_domain(domain) ==
    IF domain = <<>> \/ domain = <<"l", "o", "c", "a", "l", "h", "o", "s", "t">> \/ EndsWith(domain, <<".", "l", "o", "c", "a", "l">>)
    THEN FALSE
    ELSE IF Len(domain) > MaxDomainLen
    THEN FALSE
    ELSE LET d == IF StartsWith(domain, <<"*", ".">>) THEN Drop(domain, 2) ELSE domain
         IN  DOMAIN_PATTERN(d)

----------------------------------------------------------------------------
(* Inputs of the validator                                                 *)

\* how many labels a generated token has at most
MaxLabels == 3

LabelPool ==
    { <<"a">>, <<"a", "b">>, <<"a", "-", "b">>, <<"-", "a">>, <<"a", "-">>, <<>>, <<"c", "o", "m">>, <<"l", "o", "c", "a", "l">>, <<"l", "o", "c", "a", "l", "h", "o", "s", "t">>,
      <<"a", "_", "b">>, <<"A", "1">>, <<"*">>,
      Rep("a", MaxInterior + 2), Rep("a", MaxInterior + 3) }

RECURSIVE JoinDots(_)
JoinDots(ls) ==
    IF Len(ls) = 0 THEN <<>>
    ELSE IF Len(ls) = 1 THEN ls[1]
    ELSE ls[1] \o <<".">> \o JoinDots(Tail(ls))

\* three full labels and a last one of k characters: 192 + k characters
LongDomain(k) ==
    JoinDots(<<Rep("a", MaxInterior + 2), Rep("a", MaxInterior + 2),
               Rep("a", MaxInterior + 2), Rep("a", k)>>)

PlainTokens ==
    {JoinDots(ls) : ls \in UNION {[1..k -> LabelPool] : k \in 1..MaxLabels}}
        \cup {LongDomain(k) : k \in (MaxDomainLen - 196)..(MaxDomainLen - 190)}

TokenInputs ==
    PlainTokens \cup {<<"*", ".">> \o t : t \in PlainTokens}
        \cup {<<"a", ".", "c", "o", "m", "\n">>, <<"a", ".", "c", "\n">>, <<"a", ".", "c", "o", "m", "\n", "\n">>, <<"*", ".", "a", ".", "c", "o", "m", "\n">>}

----------------------------------------------------------------------------
(* Specification of the validator: is_valid_domain on a drawn token        *)

\* vpc is the position of the caller: before ("call") or after ("done") the
\* call; valid holds the returned value once vpc = "done"
ValidatorStart ==
    /\ token \in TokenInputs
    /\ valid = FALSE
    /\ vpc = "call"

IsValidDomainCall ==
    /\ vpc = "call"
    /\ valid' = is_valid_domain(token)
    /\ vpc' = "done"
    /\ UNCHANGED token

----------------------------------------------------------------------------
(* Line extractor: IP_DOMAIN_PATTERN, ADBLOCK_PATTERN and                   *)
(* extract_domain_from_line.  A value that may be None is a sequence of at  *)
(* most one element: <<>> is None, <<s>> is the string s.                   *)

None == <<>>
Some(s) == <<s>>

\* the length of the longest run of characters of class C in s from index i
Span(s, i, C) ==
    MinOf({j \in i..(Len(s) + 1) : j > Len(s) \/ s[j] \notin C}) - i

\* str.strip()
Strip(s) ==
    LET keep == {i \in 1..Len(s) : s[i] \notin Space}
    IN  IF keep = {} THEN <<>>
        ELSE SubSeq(s, MinOf(keep), CHOOSE i \in keep : \A j \in keep : j <= i)

\* IP_DOMAIN_PATTERN.match(s): ^\s*\d{1,3}\.\d{1,3}\.\d{1,3}\.\d{1,3}\s+(\S+)$,
\* the value of group(1) or None.  The classes \s, \d, '.' and \S+ after \s+
\* are disjoint where they meet, so every run is the longest one.
IP_DOMAIN_PATTERN(s) ==
    LET p1 == 1 + Span(s, 1, Space)
        d1 == Span(s, p1, Digit)
        p2 == p1 + d1 + 1
        d2 == Span(s, p2, Digit)
        p3 == p2 + d2 + 1
        d3 == Span(s, p3, Digit)
        p4 == p3 + d3 + 1
        d4 == Span(s, p4, Digit)
        p5 == p4 + d4
        w  == Span(s, p5, Space)
        p6 == p5 + w
        t  == Span(s, p6, {s[i] : i \in 1..Len(s)} \ Space)
    IN  IF /\ d1 \in 1..3 /\ p2 - 1 <= Len(s) /\ s[p2 - 1] = "."
           /\ d2 \in 1..3 /\ p3 - 1 <= Len(s) /\ s[p3 - 1] = "."
           /\ d3 \in 1..3 /\ p4 - 1 <= Len(s) /\ s[p4 - 1] = "."
           /\ d4 \in 1..3
           /\ w >= 1
           /\ t >= 1
           /\ p6 + t - 1 = DollarEnd(s)
        THEN Some(SubSeq(s, p6, p6 + t - 1))
        ELSE None

\* ADBLOCK_PATTERN.match(s): ^\|\|(.+?)\^(?:\$.*)?$, the value of group(1) or
\* None.  (.+?) is lazy: the match ends at the first '^' after which the rest
\* of the pattern matches.
ADBLOCK_PATTERN(s) ==
    LET e == DollarEnd(s)
        NoNewline(lo, hi) == \A j \in lo..hi : s[j] # "\n"
        carets == {k \in 4..Len(s) :
                      /\ s[k] = "^"
                      /\ NoNewline(3, k - 1)
                      /\ \/ k = e
                         \/ /\ k + 1 <= e
                            /\ s[k + 1] = "$"
                            /\ NoNewline(k + 2, e)}
    IN  IF Len(s) >= 4 /\ s[1] = "|" /\ s[2] = "|" /\ carets # {}
        THEN Some(SubSeq(s, 3, MinOf(carets) - 1))
        ELSE None

\* re.sub(r'(#|!).*$', '', s): the leftmost '#' or '!' from which no newline
\* stands before the place of '$' starts the match, which is removed
RemoveInlineComment(s) ==
    LET e == DollarEnd(s)
        marks == {i \in 1..e : /\ s[i] \in {"#", "!"}
                               /\ \A j \in (i + 1)..e : s[j] # "\n"}
    IN  IF marks = {} THEN s
        ELSE SubSeq(s, 1, MinOf(marks) - 1) \o SubSeq(s, e + 1, Len(s))

Contains(s, c) == \E i \in 1..Len(s) : s[i] = c

\* the plain-domain test with every whitespace character refused
PlainTest_NoWhitespace(line) ==
    /\ \A i \in 1..Len(line) : line[i] \notin Space
    /\ ~Contains(line, "/") /\ ~Contains(line, "?")
    /\ ~Contains(line, "!") /\ ~Contains(line, "#")

\* ' ' not in line and '/' not in line and '?' not in line and
\* '!' not in line and '#' not in line
PlainTest(line) ==
    /\ ~Contains(line, " ") /\ ~Contains(line, "/") /\ ~Contains(line, "?")
    /\ ~Contains(line, "!") /\ ~Contains(line, "#")

extract_domain_from_line(line0) ==
    LET line1 == Strip(line0)
    IN  IF line1 = <<>> \/ line1[1] = "#" \/ line1[1] = "!" THEN None
        ELSE LET line == Strip(RemoveInlineComment(line1))
             IN  IF line = <<>> THEN None
                 ELSE IF IP_DOMAIN_PATTERN(line) # None THEN IP_DOMAIN_PATTERN(line)
                 ELSE IF ADBLOCK_PATTERN(line) # None THEN ADBLOCK_PATTERN(line)
                 ELSE IF PlainTest(line) THEN Some(line)
                 ELSE None

----------------------------------------------------------------------------
(* Inputs of the extractor                                                 *)

LineBodies ==
    { <<>>, <<"a", ".", "c", "o", "m">>, <<"*", ".", "a", ".", "c", "o", "m">>, <<"a", "\t", "b">>, <<"a", " ", "b">>, <<"/", "p", "a", "t", "h", "/", "r", "u", "l", "e">>, <<"a", "?", "b">>, <<"a", "/", "b">>,
      <<"0", ".", "0", ".", "0", ".", "0", " ", "a", ".", "c", "o", "m">>, <<"1", "2", "7", ".", "0", ".", "0", ".", "1", "\t", "a", ".", "c", "o", "m">>, <<"0", ".", "0", ".", "0", ".", "0", " ", " ", "\t", " ", "a", ".", "c", "o", "m">>,
      <<"1", "2", "3", "4", ".", "0", ".", "0", ".", "0", " ", "a", ".", "c", "o", "m">>, <<"0", ".", "0", ".", "0", " ", "a", ".", "c", "o", "m">>, <<"0", ".", "0", ".", "0", ".", "0", " ", "a", ".", "c", "o", "m", " ", "b", ".", "c", "o", "m">>, <<"0", ".", "0", ".", "0", ".", "0">>,
      <<"0", ".", "0", ".", "0", ".", "0", " ", "|", "|", "a", ".", "c", "o", "m", "^">>, <<"9", "9", "9", ".", "9", "9", "9", ".", "9", "9", "9", ".", "9", "9", "9", " ", "x">>, <<"0", ".", "0", ".", "0", ".", "0", "a", ".", "c", "o", "m">>,
      <<"|", "|", "a", ".", "c", "o", "m", "^">>, <<"|", "|", "a", ".", "c", "o", "m", "^", "$", "t", "h", "i", "r", "d", "-", "p", "a", "r", "t", "y">>, <<"|", "|", "a", "^", "b", "^">>, <<"|", "|", "a", ".", "c", "o", "m", "^", "x">>, <<"|", "|", "^">>,
      <<"|", "|", " ", "^">>, <<"|", "|", "a", ".", "c", "o", "m", "^", " ", "$", "x">>, <<"|", "|", "a", ".", "c", "o", "m">>, <<"|", "a", ".", "c", "o", "m", "^">>, <<"|", "|", "a", " ", "b", "^">>, <<"|", "|", "a", "^", "$", "b", "^", "$", "c">>,
      <<"|", "|", "a", ".", "c", "o", "m", "^", "$">>, <<"|", "|", "a", "\t", "b", "^">> }

LinePrefixes == { <<>>, <<" ">>, <<"\t">>, <<"#">>, <<"!">>, <<" ", "#", " ">>, <<"0", ".", "0", ".", "0", ".", "0", " ">> }

LineSuffixes == { <<>>, <<" ">>, <<"#", "c">>, <<" ", "#", " ", "c">>, <<"!", "x">>, <<" ", "!", " ", "x", " ", "#", " ", "y">>, <<"\n">>, <<"\t">> }

LineInputs ==
    {p \o b \o s : p \in LinePrefixes, b \in LineBodies, s \in LineSuffixes}

----------------------------------------------------------------------------
(* Specification of the extractor: extract_domain_from_line on a drawn line *)

ExtractorStart ==
    /\ xline \in LineInputs
    /\ xdomain = None
    /\ xpc = "call"

ExtractDomainCall ==
    /\ xpc = "call"
    /\ xdomain' = extract_domain_from_line(xline)
    /\ xpc' = "done"
    /\ UNCHANGED xline

----------------------------------------------------------------------------
(* Blocklist normalizer: optimize_blocklist                                *)

\* lines[:200] of the first pass
SampleSize == 200

Min(a, b) == IF a <= b THEN a ELSE b

\* bytes.decode('utf-8', errors='ignore'): undecodable bytes are dropped
Decode(content) == SelectSeq(content, LAMBDA c : c # BadByte)

\* position i of s ends a line boundary: a "\n", or a "\r" that no "\n" follows
EndsBoundary(s, i) ==
    \/ s[i] = "\n"
    \/ s[i] = "\r" /\ ~(i < Len(s) /\ s[i + 1] = "\n")

\* where the boundary that ends at position i starts: "\r\n" is one boundary
BoundaryStart(s, i) ==
    IF s[i] = "\n" /\ i > 1 /\ s[i - 1] = "\r" THEN i - 1 ELSE i

\* the lines of s, ends being the positions in s where its boundaries end
LinesBetween(s, ends) ==
    [k \in 1..(Len(ends) + (IF Len(ends) = 0 \/ ends[Len(ends)] < Len(s) THEN 1 ELSE 0)) |->
        SubSeq(s, (IF k = 1 THEN 1 ELSE ends[k - 1] + 1),
                  (IF k <= Len(ends) THEN BoundaryStart(s, ends[k]) - 1 ELSE Len(s)))]

\* str.splitlines(): the lines without their boundaries, \r\n being one
\* boundary; no empty last line after a final boundary
SplitLines(s) ==
    IF s = <<>> THEN <<>>
    ELSE LinesBetween(s, SelectSeq([i \in 1..Len(s) |-> i],
                                   LAMBDA i : EndsBoundary(s, i)))

\* '\n'.join(lines), halving the list
RECURSIVE JoinLines(_)
JoinLines(ls) ==
    IF Len(ls) = 0 THEN <<>>
    ELSE IF Len(ls) = 1 THEN ls[1]
    ELSE JoinLines(SubSeq(ls, 1, Len(ls) \div 2)) \o <<"\n">>
            \o JoinLines(SubSeq(ls, Len(ls) \div 2 + 1, Len(ls)))

\* str(n) for n >= 0
DigitSeq == <<"0", "1", "2", "3", "4", "5", "6", "7", "8", "9">>
RECURSIVE IntToStr(_)
IntToStr(n) ==
    IF n < 10 THEN <<DigitSeq[n + 1]>>
    ELSE IntToStr(n \div 10) \o <<DigitSeq[(n % 10) + 1]>>

\* str.lower()
LowerStr(s) == [i \in 1..Len(s) |-> LowerChar(s[i])]

\* p in s
HasSubstr(s, p) ==
    \E i \in 1..(Len(s) - Len(p) + 1) : SubSeq(s, i, i + Len(p) - 1) = p

\* a < b for str: by code point, a proper prefix first
StrLess(a, b) ==
    \/ /\ Len(a) < Len(b)
       /\ SubSeq(b, 1, Len(a)) = a
    \/ \E i \in 1..Min(Len(a), Len(b)) :
          /\ SubSeq(a, 1, i - 1) = SubSeq(b, 1, i - 1)
          /\ Ord(a[i]) < Ord(b[i])

\* sorted(xs) for a list of str (equal elements are kept)
RECURSIVE Sorted(_)
Sorted(xs) ==
    IF Len(xs) = 0 THEN <<>>
    ELSE LET m == CHOOSE i \in 1..Len(xs) :
                     \A j \in 1..Len(xs) : ~StrLess(xs[j], xs[i])
         IN  <<xs[m]>> \o Sorted(SubSeq(xs, 1, m - 1) \o SubSeq(xs, m + 1, Len(xs)))

\* sorted(S) for a set of str
RECURSIVE SortedSet(_)
SortedSet(S) ==
    IF S = {} THEN <<>>
    ELSE LET m == CHOOSE x \in S : \A y \in S : ~StrLess(y, x)
         IN  <<m>> \o SortedSet(S \ {m})

IsComment(line) == Len(line) > 0 /\ (line[1] = "#" \/ line[1] = "!")

\* ---- first pass: the format vote ----

ZeroCounts ==
    [total_lines |-> 0, adblock_count |-> 0, host_count |-> 0, plain_count |-> 0]

\* one round of the loop of the first pass: the counters c after a line
CountLine(c, raw) ==
    IF Strip(raw) = <<>> \/ IsComment(Strip(raw)) THEN c
    ELSE [c EXCEPT
            !.total_lines = @ + 1,
            !.adblock_count =
                IF ADBLOCK_PATTERN(Strip(raw)) # None THEN @ + 1 ELSE @,
            !.host_count =
                IF /\ ADBLOCK_PATTERN(Strip(raw)) = None
                   /\ IP_DOMAIN_PATTERN(Strip(raw)) # None
                THEN @ + 1 ELSE @,
            !.plain_count =
                IF /\ ADBLOCK_PATTERN(Strip(raw)) = None
                   /\ IP_DOMAIN_PATTERN(Strip(raw)) = None
                   /\ ~Contains(Strip(raw), " ") /\ ~Contains(Strip(raw), "/")
                THEN @ + 1 ELSE @]

\* the counters only ever grow by one: the counters after several rounds are
\* the sums of what each round adds
AddCounts(a, b) ==
    [ total_lines |-> a.total_lines + b.total_lines,
      adblock_count |-> a.adblock_count + b.adblock_count,
      host_count |-> a.host_count + b.host_count,
      plain_count |-> a.plain_count + b.plain_count ]

\* what the rounds lo..hi of the loop add to the counters
RECURSIVE CountLines(_, _, _)
CountLines(lines, lo, hi) ==
    IF lo > hi THEN ZeroCounts
    ELSE IF lo = hi THEN CountLine(ZeroCounts, lines[lo])
    ELSE AddCounts(CountLines(lines, lo, (lo + hi) \div 2),
                   CountLines(lines, (lo + hi) \div 2 + 1, hi))

\* the counters after a loop over the first 200 lines that are neither empty
\* nor comments
FirstPass_SkipsComments(lines) ==
    CountLines(SelectSeq(lines, LAMBDA raw : Strip(raw) # <<>> /\ ~IsComment(Strip(raw))),
               1,
               Min(Len(SelectSeq(lines, LAMBDA raw : Strip(raw) # <<>> /\ ~IsComment(Strip(raw)))),
                   SampleSize))

\* the counters after the loop over lines[:200]
FirstPass(lines) == CountLines(lines, 1, Min(Len(lines), SampleSize))

\* the vote with a majority that need not be strict
Vote_NotStrict(c, preserve_format) ==
    IF c.total_lines > 0 /\ 2 * c.adblock_count >= c.total_lines
    THEN [adblock_style |-> TRUE, preserve_format |-> TRUE]
    ELSE IF c.total_lines > 0 /\ 2 * c.host_count >= c.total_lines
    THEN [adblock_style |-> FALSE, preserve_format |-> TRUE]
    ELSE [adblock_style |-> FALSE, preserve_format |-> preserve_format]

\* "Determine primary format": count / total_lines > 0.5 is 2 * count >
\* total_lines (the quotient of two small integers is exact enough)
Vote(c, preserve_format) ==
    IF c.total_lines > 0 /\ 2 * c.adblock_count > c.total_lines
    THEN [adblock_style |-> TRUE, preserve_format |-> TRUE]
    ELSE IF c.total_lines > 0 /\ 2 * c.host_count > c.total_lines
    THEN [adblock_style |-> FALSE, preserve_format |-> TRUE]
    ELSE [adblock_style |-> FALSE, preserve_format |-> preserve_format]

\* ---- second pass: one line ----

MetadataKeywords ==
    { <<"t", "i", "t", "l", "e", ":">>, <<"l", "a", "s", "t", " ", "m", "o", "d", "i", "f", "i", "e", "d", ":">>, <<"v", "e", "r", "s", "i", "o", "n", ":">>, <<"b", "l", "o", "c", "k", "e", "d", ":">>, <<"u", "p", "d", "a", "t", "e", "d", ":">>,
      <<"c", "o", "u", "n", "t", ":">>, <<"d", "e", "s", "c", "r", "i", "p", "t", "i", "o", "n", ":">> }

IsGroupLabel(line) ==
    \/ StartsWith(line, <<"#", "[">>) /\ EndsWith(line, <<"]">>)
    \/ StartsWith(line, <<"#", " ", "[">>) /\ EndsWith(line, <<"]">>)

\* line[3:-1].strip() or line[2:-1].strip()
GroupName(line) ==
    IF StartsWith(line, <<"#", " ", "[">>)
    THEN Strip(SubSeq(line, 4, Len(line) - 1))
    ELSE Strip(SubSeq(line, 3, Len(line) - 1))

\* groups is a dict in insertion order: a sequence of [name, members]
HasGroup(groups, name) == \E k \in 1..Len(groups) : groups[k].name = name

\* groups[name] = [] with an old key taken out and put last
ResetGroup_MovesLast(groups, name) ==
    Append(SelectSeq(groups, LAMBDA g : g.name # name),
           [name |-> name, members |-> <<>>])

\* groups[name] = []: a new key goes last, an old key keeps its place
ResetGroup(groups, name) ==
    IF HasGroup(groups, name)
    THEN [k \in 1..Len(groups) |->
            IF groups[k].name = name THEN [name |-> name, members |-> <<>>]
            ELSE groups[k]]
    ELSE Append(groups, [name |-> name, members |-> <<>>])

\* groups[name].append(domain)
AppendToGroup(groups, name, domain) ==
    [k \in 1..Len(groups) |->
        IF groups[k].name = name
        THEN [groups[k] EXCEPT !.members = Append(@, domain)]
        ELSE groups[k]]

\* the truth value of current_group: neither None nor ''
Truthy(opt) == opt # None /\ opt[1] # <<>>

\* the test of line 308 without the validator
AcceptDomain_Unvalidated(domain) == Truthy(domain)

\* "if domain and self.is_valid_domain(domain)"
AcceptDomain(domain) == Truthy(domain) /\ is_valid_domain(domain[1])

\* the body of the loop "for line in lines" on the locals l
ProcessLine(l, raw, preserve_metadata, preserve_grouping) ==
    LET line0 == Strip(raw)
    IN  IF IsComment(line0)
        THEN LET line == IF line0[1] = "!" THEN <<"#">> \o Tail(line0) ELSE line0
                 l1 == IF /\ preserve_metadata
                          /\ \E kw \in MetadataKeywords : HasSubstr(LowerStr(line), kw)
                       THEN [l EXCEPT !.metadata = Append(@, line)]
                       ELSE l
             IN  IF preserve_grouping /\ IsGroupLabel(line)
                 THEN [l1 EXCEPT !.current_group = Some(GroupName(line)),
                                 !.groups = ResetGroup(@, GroupName(line))]
                 ELSE l1
        ELSE IF line0 = <<>> THEN l
        ELSE LET domain == extract_domain_from_line(line0)
             IN  IF ~AcceptDomain(domain) THEN l
                 ELSE LET d == domain[1]
                          l1 == [l EXCEPT !.domains = @ \cup {d}]
                          l2 == IF l.preserve_format
                                THEN [l1 EXCEPT !.domain_formats =
                                        [x \in (DOMAIN @) \cup {d} |->
                                            IF x = d THEN line0 ELSE @[x]]]
                                ELSE l1
                      IN  IF preserve_grouping /\ Truthy(l.current_group)
                          THEN [l2 EXCEPT !.groups =
                                  AppendToGroup(@, l.current_group[1], d)]
                          ELSE l2

\* ---- serialization ----

\* datetime.now().strftime('%Y-%m-%d %H:%M:%S'): some time stamp
Timestamp == <<"2", "0", "2", "6", "-", "0", "1", "-", "0", "1", " ", "0", "0", ":", "0", "0", ":", "0", "0">>

\* the canonical line of a domain without the blank of the hosts form
CanonicalLine_NoBlank(domain, adblock_style) ==
    IF adblock_style THEN <<"|", "|">> \o domain \o <<"^">> ELSE <<"0", ".", "0", ".", "0", ".", "0">> \o domain

\* f"||{domain}^" or f"0.0.0.0 {domain}"
CanonicalLine(domain, adblock_style) ==
    IF adblock_style THEN <<"|", "|">> \o domain \o <<"^">> ELSE <<"0", ".", "0", ".", "0", ".", "0", " ">> \o domain

\* the line of a domain with its remembered line ignored
Render_IgnoresFormat(l, domain, adblock_style) == CanonicalLine(domain, adblock_style)

\* the line of a domain: its remembered line, or else its canonical line
Render(l, domain, adblock_style) ==
    IF l.preserve_format /\ domain \in DOMAIN l.domain_formats
    THEN l.domain_formats[domain]
    ELSE CanonicalLine(domain, adblock_style)

RenderAll(l, ds, adblock_style) ==
    [k \in 1..Len(ds) |-> Render(l, ds[k], adblock_style)]

\* valid_domains = [d for d in group_domains if d in domains]
ValidDomains(l, members) == SelectSeq(members, LAMBDA d : d \in l.domains)

\* the sections of the named groups from group k on
RECURSIVE GroupSections(_, _)
GroupSections(l, k) ==
    IF k > Len(l.groups) THEN <<>>
    ELSE LET vd == ValidDomains(l, l.groups[k].members)
         IN  (IF Len(vd) > 0
              THEN <<<<"#", "[">> \o l.groups[k].name \o <<"]">>>>
                       \o RenderAll(l, Sorted(vd), FALSE) \o << <<>> >>
              ELSE <<>>)
                 \o GroupSections(l, k + 1)

AllGrouped(l) ==
    UNION { {l.groups[k].members[j] : j \in 1..Len(l.groups[k].members)} \cap l.domains
            : k \in 1..Len(l.groups) }

\* optimized_content, the list of the output lines
Serialize(l, preserve_metadata, preserve_grouping) ==
    LET header == IF preserve_metadata /\ Len(l.metadata) > 0
                  THEN l.metadata
                  ELSE << <<"#", " ", "P", "i", "-", "h", "o", "l", "e", " ", "o", "p", "t", "i", "m", "i", "z", "e", "d", " ", "b", "l", "o", "c", "k", "l", "i", "s", "t">>,
                          <<"#", " ", "L", "a", "s", "t", " ", "u", "p", "d", "a", "t", "e", "d", ":", " ">> \o Timestamp >>
        count == << <<"#", " ", "T", "o", "t", "a", "l", " ", "d", "o", "m", "a", "i", "n", "s", ":", " ">> \o IntToStr(Cardinality(l.domains)), <<>> >>
        ungrouped == l.domains \ AllGrouped(l)
        body == IF preserve_grouping /\ Len(l.groups) > 0
                THEN GroupSections(l, 1)
                        \o (IF ungrouped # {}
                            THEN <<<<"#", "[", "u", "n", "g", "r", "o", "u", "p", "e", "d", "]">>>>
                                    \o RenderAll(l, SortedSet(ungrouped), FALSE)
                            ELSE <<>>)
                ELSE RenderAll(l, SortedSet(l.domains), l.adblock_style)
    IN  header \o count \o body

\* the handler that would return what had been collected
ExceptHandler_KeepsDomains(l) ==
    [text |-> <<"#", " ", "E", "r", "r", "o", "r", " ", "p", "r", "o", "c", "e", "s", "s", "i", "n", "g", " ", "b", "l", "o", "c", "k", "l", "i", "s", "t">>, domains |-> l.domains]

\* except Exception: return "# Error processing blocklist", set()
ExceptHandler(l) ==
    [text |-> <<"#", " ", "E", "r", "r", "o", "r", " ", "p", "r", "o", "c", "e", "s", "s", "i", "n", "g", " ", "b", "l", "o", "c", "k", "l", "i", "s", "t">>, domains |-> {}]

\* the locals at the start of the try block, before the text is split
InitialLocals(preserve_format) ==
    [ lines |-> <<>>, counts |-> ZeroCounts, domains |-> {},
      domain_formats |-> <<>>, metadata |-> <<>>, current_group |-> None,
      groups |-> <<>>, adblock_style |-> FALSE,
      preserve_format |-> preserve_format ]

\* "content = content.decode(...)" and "lines = content.splitlines()"
DecodeStep(l, content) == [l EXCEPT !.lines = SplitLines(Decode(content))]

\* "Determine primary format" on the counters c of the first pass
DetermineFormat(l, c) ==
    [l EXCEPT !.counts = c,
              !.adblock_style = Vote(c, l.preserve_format).adblock_style,
              !.preserve_format = Vote(c, l.preserve_format).preserve_format]

\* the first pass and "Determine primary format"
DetectStep(l) == DetermineFormat(l, FirstPass(l.lines))

\* the rounds lo..hi of the loop "for line in lines" on the locals l, by
\* halves: the first half, then the second half on its result
RECURSIVE ProcessLines(_, _, _, _, _)
ProcessLines(l, lo, hi, preserve_metadata, preserve_grouping) ==
    IF lo > Min(hi, Len(l.lines)) THEN l
    ELSE IF lo = hi
    THEN ProcessLine(l, l.lines[lo], preserve_metadata, preserve_grouping)
    ELSE ProcessLines(ProcessLines(l, lo, (lo + hi) \div 2,
                                   preserve_metadata, preserve_grouping),
                      (lo + hi) \div 2 + 1, hi, preserve_metadata, preserve_grouping)

\* the second pass
SecondPass(l, preserve_metadata, preserve_grouping) ==
    ProcessLines(l, 1, Len(l.lines), preserve_metadata, preserve_grouping)

\* "return '\n'.join(optimized_content), domains"
ReturnStep(l, preserve_metadata, preserve_grouping) ==
    [ text |-> JoinLines(Serialize(l, preserve_metadata, preserve_grouping)),
      domains |-> l.domains ]

\* the phases of the try block in which an exception may be raised
Phases == {"decode", "detect", "scan", "serialize"}

\* the try block from the serialization on; fault is the phase in which an
\* exception is raised, or "none"
TryFromSerialize(l, preserve_metadata, preserve_grouping, fault) ==
    IF fault = "serialize" THEN ExceptHandler(l)
    ELSE ReturnStep(l, preserve_metadata, preserve_grouping)

\* the try block from the second pass on
TryFromScan(l, preserve_metadata, preserve_grouping, fault) ==
    IF fault = "scan" THEN ExceptHandler(l)
    ELSE TryFromSerialize(SecondPass(l, preserve_metadata, preserve_grouping),
                          preserve_metadata, preserve_grouping, fault)

\* the try block from the first pass on
TryFromDetect(l, preserve_metadata, preserve_grouping, fault) ==
    IF fault = "detect" THEN ExceptHandler(l)
    ELSE TryFromScan(DetectStep(l), preserve_metadata, preserve_grouping, fault)

\* optimize_blocklist(content, preserve_metadata, preserve_grouping,
\* preserve_format) -> [text, domains]; fault is the phase in which an
\* exception is raised inside the try block, or "none"
optimize_blocklist(content, preserve_metadata, preserve_grouping, preserve_format, fault) ==
    IF fault = "decode" THEN ExceptHandler(InitialLocals(preserve_format))
    ELSE TryFromDetect(DecodeStep(InitialLocals(preserve_format), content),
                       preserve_metadata, preserve_grouping, fault)

----------------------------------------------------------------------------
(* Inputs of the normalizer                                                *)

\* how many lines a generated content has at most
MaxLines == 3

OptLinePool ==
    { <<"0", ".", "0", ".", "0", ".", "0", " ", "a", ".", "c", "o", "m">>, <<"|", "|", "a", ".", "c", "o", "m", "^">>, <<"a", ".", "c", "o", "m">>, <<"|", "|", "b", ".", "c", "o", "m", "^", "$", "x">>, <<"0", ".", "0", ".", "0", ".", "0", " ", "b", ".", "c", "o", "m">>,
      <<"-", "b", "a", "d", ".", "c", "o", "m">>, <<"/", "p", "a", "t", "h">>, <<"#", "[", "a", "d", "s", "]">>, <<"#", " ", "[", "g", "]">>, <<"#", "[", "]">>, <<"!", " ", "T", "i", "t", "l", "e", ":", " ", "x">>, <<>>,
      <<"c", BadByte, ".", "c", "o", "m">> }

ShortContents ==
    {JoinLines(ls) : ls \in UNION {[1..k -> OptLinePool] : k \in 0..MaxLines}}

\* contents whose first lines are comments, as many as the first pass samples
\* or one fewer
LongContents ==
    {JoinLines(Rep(<<"#">>, n) \o body) :
        n \in {SampleSize - 1, SampleSize},
        body \in { <<<<"|", "|", "a", ".", "c", "o", "m", "^">>>>, <<<<"|", "|", "a", ".", "c", "o", "m", "^">>, <<"|", "|", "b", ".", "c", "o", "m", "^", "$", "x">>>>,
                   <<<<"0", ".", "0", ".", "0", ".", "0", " ", "a", ".", "c", "o", "m">>>> }}

\* contents with several group headers: two groups with members and a domain
\* before the first header, a header that comes back, a domain under two
\* headers, a header with empty brackets
GroupContents ==
    { <<"z", ".", "c", "o", "m", "\n", "#", "[", "a", "d", "s", "]", "\n", "0", ".", "0", ".", "0", ".", "0", " ", "b", ".", "c", "o", "m", "\n", "0", ".", "0", ".", "0", ".", "0", " ", "a", ".", "c", "o", "m", "\n", "#", " ", "[", "g", "]", "\n", "|", "|", "c", ".", "c", "o", "m", "^">>,
      <<"#", "[", "a", "d", "s", "]", "\n", "a", ".", "c", "o", "m", "\n", "#", "[", "g", "]", "\n", "b", ".", "c", "o", "m", "\n", "#", "[", "a", "d", "s", "]", "\n", "c", ".", "c", "o", "m">>,
      <<"#", "[", "a", "d", "s", "]", "\n", "a", ".", "c", "o", "m", "\n", "#", "[", "g", "]", "\n", "0", ".", "0", ".", "0", ".", "0", " ", "a", ".", "c", "o", "m">>,
      <<"#", "[", "]", "\n", "a", ".", "c", "o", "m", "\n", "#", "[", "g", "]", "\n", "b", ".", "c", "o", "m">>,
      <<"#", "[", "g", "]", "\n", "b", ".", "c", "o", "m", "\n", "|", "|", "a", ".", "c", "o", "m", "^", "\n", "0", ".", "0", ".", "0", ".", "0", " ", "a", ".", "c", "o", "m", "\n", "#", "[", "a", "d", "s", "]", "\n", "|", "|", "c", ".", "c", "o", "m", "^", "\n", "!", " ", "T", "i", "t", "l", "e", ":", " ", "x">> }

ContentInputs == ShortContents \cup LongContents \cup GroupContents

FlagInputs ==
    [preserve_metadata : BOOLEAN, preserve_grouping : BOOLEAN,
     preserve_format : BOOLEAN]

----------------------------------------------------------------------------
(* The normalizer step by step: one call of optimize_blocklist.  opc is    *)
(* the position in the function, oi the index of the second pass, loc the  *)
(* locals, ret the returned pair, raised the phase in which an exception    *)
(* was raised inside the try block ("none": no exception).                 *)

OptimizerStart ==
    /\ in_content \in ContentInputs
    /\ in_flags \in FlagInputs
    /\ opc = "decode"
    /\ oi = 0
    /\ loc = InitialLocals(in_flags.preserve_format)
    /\ ret = [text |-> <<>>, domains |-> {}]
    /\ raised = "none"

OptDecode ==
    /\ opc = "decode"
    /\ loc' = DecodeStep(loc, in_content)
    /\ opc' = "detect"
    /\ UNCHANGED <<in_content, in_flags, oi, ret, raised>>

OptDetect ==
    /\ opc = "detect"
    /\ loc' = DetectStep(loc)
    /\ opc' = "scan"
    /\ oi' = 1
    /\ UNCHANGED <<in_content, in_flags, ret, raised>>

OptScanLine ==
    /\ opc = "scan"
    /\ oi <= Len(loc.lines)
    /\ loc' = ProcessLine(loc, loc.lines[oi], in_flags.preserve_metadata,
                          in_flags.preserve_grouping)
    /\ oi' = oi + 1
    /\ UNCHANGED <<in_content, in_flags, opc, ret, raised>>

OptReturn ==
    /\ opc = "scan"
    /\ oi > Len(loc.lines)
    /\ ret' = ReturnStep(loc, in_flags.preserve_metadata, in_flags.preserve_grouping)
    /\ opc' = "done"
    /\ UNCHANGED <<in_content, in_flags, oi, loc, raised>>

\* an exception raised inside the try block, at the current position
OptRaise ==
    /\ opc \in {"decode", "detect", "scan"}
    /\ raised' = IF opc = "scan" /\ oi > Len(loc.lines) THEN "serialize" ELSE opc
    /\ ret' = ExceptHandler(loc)
    /\ opc' = "done"
    /\ UNCHANGED <<in_content, in_flags, oi, loc>>

----------------------------------------------------------------------------
(* Aggregator: create_production_lists                                     *)

RECURSIVE SumOver(_, _)
\* the sum of f[x] for x in S
SumOver(S, f) ==
    IF S = {} THEN 0
    ELSE LET x == CHOOSE x \in S : TRUE
         IN  f[x] + SumOver(S \ {x}, f)

\* the loop "Collect all domains": the union per category of the sets stored
\* in domain_stats, for the categories of the configuration
CategoryDomains(dstats, cats) ==
    [c \in cats |->
        UNION {dstats[n].domains : n \in {m \in DOMAIN dstats : dstats[m].category = c}}]

AllDomains(dstats) == UNION {dstats[n].domains : n \in DOMAIN dstats}

\* the two nested loops over category_domains.items(): every ordered pair of
\* distinct categories adds the size of its intersection
OrderedPairSum(cd) ==
    SumOver({p \in (DOMAIN cd) \X (DOMAIN cd) : p[1] # p[2]},
            [p \in (DOMAIN cd) \X (DOMAIN cd) |-> Cardinality(cd[p[1]] \cap cd[p[2]])])

\* the statistic without "duplicate_count // 2"
DuplicateCount_NotHalved(cd) == OrderedPairSum(cd)

\* "duplicate_count = duplicate_count // 2"
DuplicateCount(cd) == OrderedPairSum(cd) \div 2

\* create_production_lists: the sets and the statistic it computes (the files
\* it writes list these sets)
create_production_lists(dstats, cats) ==
    [ all_domains |-> AllDomains(dstats),
      category_domains |-> CategoryDomains(dstats, cats),
      duplicate_count |-> DuplicateCount(CategoryDomains(dstats, cats)) ]

NoProd == [all_domains |-> {}, category_domains |-> <<>>, duplicate_count |-> 0]

----------------------------------------------------------------------------
(* Inputs of the aggregator                                                *)

\* how many entries a generated domain_stats has at most
MaxAggSources == 3

AggNames == {"n1", "n2", "n3", "n4", "n5"}
AggCategories == {"ads", "tracking", "malware"}
AggDomains == {<<"x", ".", "c", "o", "m">>, <<"y", ".", "c", "o", "m">>, <<"z", ".", "c", "o", "m">>}

AggEntries(cats) ==
    [category : cats, domains : SUBSET AggDomains]

\* the first k names
FirstNames(k) == {n \in AggNames : \E i \in 1..k : n = <<"n1", "n2", "n3", "n4", "n5">>[i]}

AggregatorStart ==
    /\ categories \in (SUBSET AggCategories) \ {{}}
    /\ \E k \in 0..MaxAggSources : domain_stats \in [FirstNames(k) -> AggEntries(categories)]
    /\ prod = NoProd
    /\ rpc = "aggregate"

CreateProductionListsCall ==
    /\ rpc = "aggregate"
    /\ prod' = create_production_lists(domain_stats, categories)
    /\ rpc' = "done"
    /\ UNCHANGED <<categories, domain_stats>>

----------------------------------------------------------------------------
(* Pipeline: run and process_blocklist, with downloads and optimization    *)
(* enabled (skip_download = skip_optimize = False).                        *)
(*                                                                         *)
(* blocklists[i] is source i of the configuration with what the outside    *)
(* world does to it: response is what requests.get and the write of the    *)
(* raw file come to, fault the phase in which optimize_blocklist meets an  *)
(* exception (or "none").  calls[i] is process_blocklist(blocklists[i]):   *)
(* its position pc, the pair returned by optimize_blocklist, domain_count  *)
(* and the value tmp read from a statistic before it is written back.      *)

\* response.content[:4000]
SampleBytes == 4000

MetadataMarkers ==
    { <<"t", "i", "t", "l", "e", ":">>, <<"v", "e", "r", "s", "i", "o", "n", ":">>, <<"l", "a", "s", "t", " ", "u", "p", "d", "a", "t", "e", "d", ":">>, <<"l", "a", "s", "t", " ", "m", "o", "d", "i", "f", "i", "e", "d", ":">>, <<"b", "l", "o", "c", "k", "e", "d", ":">> }

\* content_sample = response.content[:4000].decode('utf-8', errors='ignore')
ContentSample(content) == Decode(SubSeq(content, 1, Min(SampleBytes, Len(content))))

\* sum(1 for line in lines if ADBLOCK_PATTERN.match(line.strip()))
AdblockLines(ls) ==
    Cardinality({k \in 1..Len(ls) : ADBLOCK_PATTERN(Strip(ls[k])) # None})

\* sum(1 for line in lines if line.strip() and not line.strip().startswith(('#', '!')))
TotalNonCommentLines(ls) ==
    Cardinality({k \in 1..Len(ls) : Strip(ls[k]) # <<>> /\ ~IsComment(Strip(ls[k]))})

\* the three flags from the sample and its lines
SampleFlags(content_sample, ls) ==
    [ preserve_metadata |->
          \E mk \in MetadataMarkers : HasSubstr(LowerStr(content_sample), mk),
      preserve_grouping |->
          HasSubstr(content_sample, <<"#", "[">>) \/ HasSubstr(content_sample, <<"#", " ", "[">>),
      preserve_format |->
          TotalNonCommentLines(ls) > 0 /\ 2 * AdblockLines(ls) > TotalNonCommentLines(ls) ]

\* "Detect format characteristics": the three flags process_blocklist passes
\* to optimize_blocklist
DetectFlags(content) ==
    SampleFlags(ContentSample(content), SplitLines(ContentSample(content)))

\* optimize_blocklist called with the flags f
OptimizeWith(b, f) ==
    optimize_blocklist(b.response.content, f.preserve_metadata,
                       f.preserve_grouping, f.preserve_format, b.fault)

\* the call of optimize_blocklist in process_blocklist
OptimizeCall(b) == OptimizeWith(b, DetectFlags(b.response.content))

\* self.domain_stats[name] = {...}
StoreDomainStats(dstats, name, entry) ==
    [n \in (DOMAIN dstats) \cup {name} |-> IF n = name THEN entry ELSE dstats[n]]

\* ---- inputs ----

\* how many sources a generated configuration has at most
MaxSources == 2
\* how many worker threads a generated run has at most
MaxThreads == 2

Names == {"n1", "n2"}
Categories == {"ads", "tracking"}

PipelineContents ==
    { <<"0", ".", "0", ".", "0", ".", "0", " ", "x", ".", "c", "o", "m", "\n", "0", ".", "0", ".", "0", ".", "0", " ", "y", ".", "c", "o", "m">>, <<"|", "|", "y", ".", "c", "o", "m", "^", "\n", "|", "|", "z", ".", "c", "o", "m", "^">> }

SourceInputs ==
    [ name : Names, category : Categories,
      response : [status : {"ok"}, content : PipelineContents],
      fault : {"none"} \cup Phases ]
    \cup
    [ name : Names, category : Categories,
      response : [status : {"request_error", "io_error"}, content : {<<>>}],
      fault : {"none"} ]

NoResult == [text |-> <<>>, domains |-> {}]

PipelineStart ==
    /\ \E n \in 1..MaxSources : blocklists \in [1..n -> SourceInputs]
    /\ threads \in 1..MaxThreads
    /\ categories = {blocklists[i].category : i \in 1..Len(blocklists)}
    /\ calls = [i \in 1..Len(blocklists) |->
              [pc |-> "queued", result |-> NoResult, domain_count |-> 0, tmp |-> 0]]
    /\ stats = [ total_lists |-> Len(blocklists), successful |-> 0, failed |-> 0,
                 total_domains |-> 0, unique_domains |-> 0, duplicate_domains |-> 0,
                 categories |-> <<>> ]
    /\ domain_stats = <<>>
    /\ failed_lists = <<>>
    /\ prod = NoProd
    /\ rpc = "process"

Running == {i \in 1..Len(blocklists) : calls[i].pc \notin {"queued", "done"}}

\* ---- process_blocklist ----

\* a thread of the pool (or the sequential loop, a pool of one) takes the next
\* source of the configuration
Start(i) ==
    /\ rpc = "process"
    /\ calls[i].pc = "queued"
    /\ \A j \in 1..(i - 1) : calls[j].pc # "queued"
    /\ Cardinality(Running) < threads
    /\ calls' = [calls EXCEPT ![i].pc = "download"]
    /\ UNCHANGED <<blocklists, threads, stats, failed_lists, aVars>>

\* requests.get, raise_for_status and the write of the raw file
Download(i) ==
    /\ calls[i].pc = "download"
    /\ calls' = [calls EXCEPT ![i].pc =
                IF blocklists[i].response.status = "ok" THEN "optimize" ELSE "failed_read"]
    /\ UNCHANGED <<blocklists, threads, stats, failed_lists, aVars>>

\* optimize_blocklist, the write of the optimized file, domain_count
Optimize(i) ==
    /\ calls[i].pc = "optimize"
    /\ \E r \in {OptimizeCall(blocklists[i])} :
          calls' = [calls EXCEPT ![i].pc = "successful_read",
                          ![i].result = r,
                          ![i].domain_count = Cardinality(r.domains)]
    /\ UNCHANGED <<blocklists, threads, stats, failed_lists, aVars>>

\* self.stats['successful'] += 1: the read
SuccessfulRead(i) ==
    /\ calls[i].pc = "successful_read"
    /\ calls' = [calls EXCEPT ![i].pc = "successful_write", ![i].tmp = stats.successful]
    /\ UNCHANGED <<blocklists, threads, stats, failed_lists, aVars>>

\* self.stats['successful'] += 1: the write
SuccessfulWrite(i) ==
    /\ calls[i].pc = "successful_write"
    /\ stats' = [stats EXCEPT !.successful = calls[i].tmp + 1]
    /\ calls' = [calls EXCEPT ![i].pc = "total_read"]
    /\ UNCHANGED <<blocklists, threads, failed_lists, aVars>>

\* self.stats['total_domains'] += domain_count: the read
TotalDomainsRead(i) ==
    /\ calls[i].pc = "total_read"
    /\ calls' = [calls EXCEPT ![i].pc = "total_write", ![i].tmp = stats.total_domains]
    /\ UNCHANGED <<blocklists, threads, stats, failed_lists, aVars>>

\* self.stats['total_domains'] += domain_count: the write
TotalDomainsWrite(i) ==
    /\ calls[i].pc = "total_write"
    /\ stats' = [stats EXCEPT !.total_domains = calls[i].tmp + calls[i].domain_count]
    /\ calls' = [calls EXCEPT ![i].pc = "category_check"]
    /\ UNCHANGED <<blocklists, threads, failed_lists, aVars>>

\* if category not in self.stats['categories']
CategoryCheck(i) ==
    /\ calls[i].pc = "category_check"
    /\ calls' = [calls EXCEPT ![i].pc =
                IF blocklists[i].category \notin DOMAIN stats.categories
                THEN "category_init" ELSE "lists_read"]
    /\ UNCHANGED <<blocklists, threads, stats, failed_lists, aVars>>

\* self.stats['categories'][category] = {'lists': 0, 'domains': 0}
CategoryInit(i) ==
    /\ calls[i].pc = "category_init"
    /\ stats' = [stats EXCEPT !.categories =
                    [c \in (DOMAIN @) \cup {blocklists[i].category} |->
                        IF c = blocklists[i].category
                        THEN [lists |-> 0, domains |-> 0] ELSE @[c]]]
    /\ calls' = [calls EXCEPT ![i].pc = "lists_read"]
    /\ UNCHANGED <<blocklists, threads, failed_lists, aVars>>

\* self.stats['categories'][category]['lists'] += 1: the read
ListsRead(i) ==
    /\ calls[i].pc = "lists_read"
    /\ calls' = [calls EXCEPT ![i].pc = "lists_write",
                      ![i].tmp = stats.categories[blocklists[i].category].lists]
    /\ UNCHANGED <<blocklists, threads, stats, failed_lists, aVars>>

\* self.stats['categories'][category]['lists'] += 1: the write
ListsWrite(i) ==
    /\ calls[i].pc = "lists_write"
    /\ stats' = [stats EXCEPT !.categories[blocklists[i].category].lists = calls[i].tmp + 1]
    /\ calls' = [calls EXCEPT ![i].pc = "domains_read"]
    /\ UNCHANGED <<blocklists, threads, failed_lists, aVars>>

\* self.stats['categories'][category]['domains'] += domain_count: the read
DomainsRead(i) ==
    /\ calls[i].pc = "domains_read"
    /\ calls' = [calls EXCEPT ![i].pc = "domains_write",
                      ![i].tmp = stats.categories[blocklists[i].category].domains]
    /\ UNCHANGED <<blocklists, threads, stats, failed_lists, aVars>>

\* self.stats['categories'][category]['domains'] += domain_count: the write
DomainsWrite(i) ==
    /\ calls[i].pc = "domains_write"
    /\ stats' = [stats EXCEPT !.categories[blocklists[i].category].domains =
                    calls[i].tmp + calls[i].domain_count]
    /\ calls' = [calls EXCEPT ![i].pc = "store"]
    /\ UNCHANGED <<blocklists, threads, failed_lists, aVars>>

\* "Store domains for deduplication" and the return
Store(i) ==
    /\ calls[i].pc = "store"
    /\ domain_stats' = StoreDomainStats(domain_stats, blocklists[i].name,
                          [ category |-> blocklists[i].category,
                            domains |-> calls[i].result.domains,
                            count |-> calls[i].domain_count ])
    /\ calls' = [calls EXCEPT ![i].pc = "done"]
    /\ UNCHANGED <<blocklists, threads, stats, failed_lists, categories, prod, rpc>>

\* the except clauses: self.stats['failed'] += 1, the read
FailedRead(i) ==
    /\ calls[i].pc = "failed_read"
    /\ calls' = [calls EXCEPT ![i].pc = "failed_write", ![i].tmp = stats.failed]
    /\ UNCHANGED <<blocklists, threads, stats, failed_lists, aVars>>

\* the except clauses: self.stats['failed'] += 1, the write, then
\* self.failed_lists.append and the return
FailedWrite(i) ==
    /\ calls[i].pc = "failed_write"
    /\ stats' = [stats EXCEPT !.failed = calls[i].tmp + 1]
    /\ failed_lists' = Append(failed_lists,
                          [ name |-> blocklists[i].name,
                            category |-> blocklists[i].category,
                            error |-> blocklists[i].response.status ])
    /\ calls' = [calls EXCEPT ![i].pc = "done"]
    /\ UNCHANGED <<blocklists, threads, aVars>>

\* ---- run ----

\* after the last source: create_production_lists and the two statistics it
\* sets
CreateProductionLists ==
    /\ rpc = "process"
    /\ \A i \in 1..Len(blocklists) : calls[i].pc = "done"
    /\ prod' = create_production_lists(domain_stats, categories)
    /\ stats' = [stats EXCEPT
                    !.duplicate_domains = prod'.duplicate_count,
                    !.unique_domains = Cardinality(prod'.all_domains)]
    /\ rpc' = "done"
    /\ UNCHANGED <<blocklists, threads, calls, failed_lists, categories, domain_stats>>

ProcessBlocklist(i) ==
    \/ Start(i) \/ Download(i) \/ Optimize(i)
    \/ SuccessfulRead(i) \/ SuccessfulWrite(i)
    \/ TotalDomainsRead(i) \/ TotalDomainsWrite(i)
    \/ CategoryCheck(i) \/ CategoryInit(i)
    \/ ListsRead(i) \/ ListsWrite(i)
    \/ DomainsRead(i) \/ DomainsWrite(i)
    \/ Store(i)
    \/ FailedRead(i) \/ FailedWrite(i)

----------------------------------------------------------------------------
(* Specifications.  Each one runs one component; the variables of the      *)
(* other components rest at their Off values.                              *)

vars == <<vVars, xVars, oVars, aVars, pVars>>

ValidatorOff == token = <<>> /\ valid = FALSE /\ vpc = "off"
ExtractorOff == xline = <<>> /\ xdomain = None /\ xpc = "off"
OptimizerOff ==
    /\ in_content = <<>> /\ in_flags = [preserve_metadata |-> FALSE,
                                  preserve_grouping |-> FALSE,
                                  preserve_format |-> FALSE]
    /\ opc = "off" /\ oi = 0 /\ loc = InitialLocals(FALSE)
    /\ ret = [text |-> <<>>, domains |-> {}] /\ raised = "none"

AggregatorOff ==
    categories = {} /\ domain_stats = <<>> /\ prod = NoProd /\ rpc = "off"

PipelineOff ==
    /\ blocklists = <<>> /\ threads = 0 /\ calls = <<>> /\ failed_lists = <<>>
    /\ stats = [ total_lists |-> 0, successful |-> 0, failed |-> 0,
                 total_domains |-> 0, unique_domains |-> 0, duplicate_domains |-> 0,
                 categories |-> <<>> ]

InitValidator == ValidatorStart /\ ExtractorOff /\ OptimizerOff /\ AggregatorOff /\ PipelineOff
NextValidator == IsValidDomainCall /\ UNCHANGED <<xVars, oVars, aVars, pVars>>
SpecValidator == InitValidator /\ [][NextValidator]_vars

InitExtractor == ExtractorStart /\ ValidatorOff /\ OptimizerOff /\ AggregatorOff /\ PipelineOff
NextExtractor == ExtractDomainCall /\ UNCHANGED <<vVars, oVars, aVars, pVars>>
SpecExtractor == InitExtractor /\ [][NextExtractor]_vars

InitOptimizer == OptimizerStart /\ ValidatorOff /\ ExtractorOff /\ AggregatorOff /\ PipelineOff
NextOptimizer ==
    \/ OptDecode /\ UNCHANGED <<vVars, xVars, aVars, pVars>>
    \/ OptDetect /\ UNCHANGED <<vVars, xVars, aVars, pVars>>
    \/ OptScanLine /\ UNCHANGED <<vVars, xVars, aVars, pVars>>
    \/ OptReturn /\ UNCHANGED <<vVars, xVars, aVars, pVars>>
    \/ OptRaise /\ UNCHANGED <<vVars, xVars, aVars, pVars>>
SpecOptimizer == InitOptimizer /\ [][NextOptimizer]_vars

InitAggregator ==
    AggregatorStart /\ ValidatorOff /\ ExtractorOff /\ OptimizerOff /\ PipelineOff
NextAggregator == CreateProductionListsCall /\ UNCHANGED <<vVars, xVars, oVars, pVars>>
SpecAggregator == InitAggregator /\ [][NextAggregator]_vars

Init == PipelineStart /\ ValidatorOff /\ ExtractorOff /\ OptimizerOff
OtherVars == <<vVars, xVars, oVars>>

Next ==
    \/ \E i \in 1..Len(blocklists) : ProcessBlocklist(i) /\ UNCHANGED OtherVars
    \/ CreateProductionLists /\ UNCHANGED OtherVars
Spec == Init /\ [][Next]_vars

----------------------------------------------------------------------------
(* Claims about the validator                                              *)

StripWildcard(t) == IF StartsWith(t, <<"*", ".">>) THEN Drop(t, 2) ELSE t

NoLineBreak(t) == \A i \in 1..Len(t) : t[i] \notin LineBreak

\* d reads as labels separated by single dots, at least minLabels of them,
\* every label 1..63 characters of letters, digits and hyphens with no hyphen
\* at either end, the last label at least minTld characters long
LabelShape(d, minLabels, minTld) ==
    /\ Len(d) >= minTld
    /\ \A i \in 1..Len(d) : d[i] \in Alnum \cup {"-", "."}
    /\ d[1] \in Alnum
    /\ d[Len(d)] \in Alnum
    /\ \A i \in 1..(Len(d) - 1) :
          /\ d[i] = "." => d[i + 1] \in Alnum
          /\ d[i + 1] = "." => d[i] \in Alnum
    /\ \A i \in 1..(Len(d) - 63) : \E j \in i..(i + 63) : d[j] = "."
    /\ Cardinality({i \in 1..Len(d) : d[i] = "."}) + 1 >= minLabels
    /\ \A j \in (Len(d) - minTld + 1)..Len(d) : d[j] # "."

NotExcluded(t) ==
    /\ t # <<"l", "o", "c", "a", "l", "h", "o", "s", "t">>
    /\ ~EndsWith(t, <<".", "l", "o", "c", "a", "l">>)

\* C7, as amended: a token without a line break that is not `localhost`, does
\* not end in `.local` and is at most 253 characters long is accepted if and
\* only if, after removal of a leading `*.`, it consists of two or more labels
\* separated by `.`, every label 1 to 63 characters long with first and last
\* character alphanumeric and interior characters alphanumeric or hyphen, and
\* the final label at least 2 characters long.
C7_ValidIffTwoLabelsLongTld ==
    (vpc = "done" /\ NotExcluded(token) /\ Len(token) <= 253 /\ NoLineBreak(token))
        => (valid <=> LabelShape(StripWildcard(token), 2, 2))

\* C7 as stated: one or more labels, the final label of the same shape as the
\* others (a single character suffices).
C7_Original_ValidIffAnyLabels ==
    (vpc = "done" /\ NotExcluded(token) /\ Len(token) <= 253 /\ NoLineBreak(token))
        => (valid <=> LabelShape(StripWildcard(token), 1, 1))

\* C7 witness: a wildcard token with a 63-character label and a two-character
\* final label has been accepted.
C7_Witness ==
    /\ vpc = "done"
    /\ valid
    /\ token = <<"*", ".">> \o Rep("a", 63) \o <<".", "a", "b">>

\* C8, as amended: the 253-character limit applies to the token as given, a
\* leading `*.` included: a token whose remainder after the wildcard is a
\* well-formed domain is accepted exactly when the whole token is at most 253
\* characters long, so `*.`+d is accepted for a valid d of at most 251
\* characters and rejected for one of 252 or 253.
C8_LimitOnWholeToken ==
    (vpc = "done" /\ NotExcluded(token) /\ LabelShape(StripWildcard(token), 2, 2))
        => (valid <=> Len(token) <= 253)

\* C8 as stated: the limit is measured after the leading `*.` is stripped.
C8_Original_LimitAfterStrip ==
    (vpc = "done" /\ NotExcluded(token) /\ LabelShape(StripWildcard(token), 2, 2))
        => (valid <=> Len(StripWildcard(token)) <= 253)

\* C8 witness: a wildcard token of exactly 253 characters (its remainder has
\* 251) has been accepted.
C8_Witness ==
    /\ vpc = "done"
    /\ valid
    /\ StartsWith(token, <<"*", ".">>)
    /\ Len(token) = 253

----------------------------------------------------------------------------
(* Claims about the extractor                                              *)

\* the result the rules of the extractor describe: the hosts entry, else the
\* AdBlock rule, else the line itself when it holds no whitespace and none of
\* `/`, `?`, `!`, `#`, else none
ClaimedExtract(line0) ==
    IF Strip(line0) = <<>> \/ IsComment(Strip(line0)) THEN None
    ELSE IF Strip(RemoveInlineComment(Strip(line0))) = <<>> THEN None
    ELSE IF IP_DOMAIN_PATTERN(Strip(RemoveInlineComment(Strip(line0)))) # None
         THEN IP_DOMAIN_PATTERN(Strip(RemoveInlineComment(Strip(line0))))
    ELSE IF ADBLOCK_PATTERN(Strip(RemoveInlineComment(Strip(line0)))) # None
         THEN ADBLOCK_PATTERN(Strip(RemoveInlineComment(Strip(line0))))
    ELSE IF PlainTest_NoWhitespace(Strip(RemoveInlineComment(Strip(line0))))
         THEN Some(Strip(RemoveInlineComment(Strip(line0))))
    ELSE None

\* C9: extract_domain_from_line returns the second token of a hosts entry,
\* otherwise the token of an AdBlock rule, otherwise the line itself when it
\* contains no whitespace, no `/`, no `?`, no `!` and no `#`, and none for
\* every other line.
C9_ExtractFollowsRules ==
    xpc = "done" => xdomain = ClaimedExtract(xline)

----------------------------------------------------------------------------
(* Claims about the normalizer                                             *)

\* the lines of a content
LinesOf(content) == SplitLines(Decode(content))

\* the lines among ls that are neither empty nor comments
ContentLineIndexes(ls) ==
    {k \in 1..Len(ls) : Strip(ls[k]) # <<>> /\ ~IsComment(Strip(ls[k]))}

\* the tokens some content line of ls yields and the validator accepts
ValidExtractions(ls) ==
    { extract_domain_from_line(ls[k])[1] :
        k \in {j \in ContentLineIndexes(ls) :
                 /\ extract_domain_from_line(ls[j]) # None
                 /\ is_valid_domain(extract_domain_from_line(ls[j])[1])} }

\* C1: the domain set optimize_blocklist returns is exactly the set of the
\* tokens d that some non-comment, non-empty line of the input yields from
\* extract_domain_from_line with is_valid_domain(d) true, each once, whatever
\* the three flags are.
C1_DomainsAreValidExtractions ==
    (opc = "done" /\ raised = "none") => ret.domains = ValidExtractions(LinesOf(in_content))

\* C1 witness: a call has returned one domain for an input that names it on
\* two lines in two formats.
C1_Witness ==
    /\ opc = "done"
    /\ raised = "none"
    /\ in_content = <<"0", ".", "0", ".", "0", ".", "0", " ", "a", ".", "c", "o", "m", "\n", "|", "|", "a", ".", "c", "o", "m", "^">>
    /\ ret.domains = {<<"a", ".", "c", "o", "m">>}

\* C2: normalizing the returned text again with the same flags returns the
\* same domain set, whatever rendering the text uses.
C2_RenormalizeSameDomains ==
    opc = "done" =>
        optimize_blocklist(ret.text, in_flags.preserve_metadata,
                           in_flags.preserve_grouping, in_flags.preserve_format,
                           "none").domains = ret.domains

\* C2 witness: a call has returned a text with a group section and an
\* `#[ungrouped]` section, both with domains.
C2_Witness ==
    /\ opc = "done"
    /\ raised = "none"
    /\ in_flags.preserve_grouping
    /\ \E k \in 1..Len(loc.groups) : Len(loc.groups[k].members) > 0
    /\ ret.domains \ AllGrouped(loc) # {}
    /\ ret.text # in_content

\* the lines the first pass looks at
SampleLines(ls) == SubSeq(ls, 1, Min(SampleSize, Len(ls)))

\* how many lines of the sample vote: those neither empty nor comments
Voters(sample) == Cardinality(ContentLineIndexes(sample))

AdblockVotes(sample) ==
    Cardinality({k \in ContentLineIndexes(sample) :
                    ADBLOCK_PATTERN(Strip(sample[k])) # None})

HostVotes(sample) ==
    Cardinality({k \in ContentLineIndexes(sample) :
                    IP_DOMAIN_PATTERN(Strip(sample[k])) # None})

\* the result of a strict-majority vote of a AdBlock-style and h hosts-style
\* lines among n voting lines is in the locals l of a call with the flags f
StrictMajority(a, h, n, l, f) ==
    /\ 2 * a > n => l.adblock_style /\ l.preserve_format
    /\ (2 * a <= n /\ 2 * h > n) => ~l.adblock_style /\ l.preserve_format
    /\ (2 * a <= n /\ 2 * h <= n)
          => ~l.adblock_style /\ l.preserve_format = f.preserve_format
    /\ f.preserve_format => l.preserve_format

\* the votes of a sample
VotesOf(sample) ==
    [a |-> AdblockVotes(sample), h |-> HostVotes(sample), n |-> Voters(sample)]

\* the vote has been taken and its result is in the locals
VoteTaken ==
    \/ opc = "scan"
    \/ opc = "done" /\ raised \in {"none", "scan", "serialize"}

\* C10: with AdBlock-style lines more than half of the voting lines,
\* adblock_style and preserve_format are true; else with hosts-style lines
\* more than half, preserve_format is true and adblock_style false; otherwise
\* (a tie and an empty sample included) adblock_style is false and
\* preserve_format is the caller's value. A caller's preserve_format = true
\* stays true whatever the vote.
C10_StrictMajorityVote ==
    VoteTaken =>
        \A v \in {VotesOf(SampleLines(LinesOf(in_content)))} :
            StrictMajority(v.a, v.h, v.n, loc, in_flags)

\* C10 witness: the AdBlock-style lines were exactly half of the voting lines,
\* the caller passed preserve_format = false, and the vote left both flags
\* false.
C10_Witness ==
    /\ opc = "done"
    /\ raised = "none"
    /\ \E v \in {VotesOf(SampleLines(LinesOf(in_content)))} :
          v.n > 0 /\ 2 * v.a = v.n
    /\ ~in_flags.preserve_format
    /\ ~loc.adblock_style
    /\ ~loc.preserve_format

----------------------------------------------------------------------------
(* Claims about the aggregator and the pipeline                            *)

\* the unordered pairs of distinct categories of cd
CategoryPairs(cd) == {P \in SUBSET (DOMAIN cd) : Cardinality(P) = 2}

\* a pair of categories together with a domain both hold
SharedByPair(cd) ==
    {pd \in CategoryPairs(cd) \X (UNION {cd[c] : c \in DOMAIN cd}) :
        \A c \in pd[1] : pd[2] \in cd[c]}

\* in how many categories of cd the domain d is
Holders(cd, d) == Cardinality({c \in DOMAIN cd : d \in cd[c]})

\* C4: the overlap statistic is the sum over the unordered pairs of distinct
\* categories of the size of their intersection; a domain present in k
\* categories contributes k*(k-1)/2; the ordered-pair sum that is halved is
\* even.
C4_OverlapIsUnorderedPairSum ==
    rpc = "done" =>
        /\ prod.duplicate_count = Cardinality(SharedByPair(prod.category_domains))
        /\ prod.duplicate_count =
              SumOver(prod.all_domains,
                      [d \in prod.all_domains |->
                          (Holders(prod.category_domains, d)
                              * (Holders(prod.category_domains, d) - 1)) \div 2])
        /\ OrderedPairSum(prod.category_domains) % 2 = 0
        /\ Cardinality(DOMAIN prod.category_domains) <= 1 => prod.duplicate_count = 0

\* C4 witness: three categories hold one common domain, another domain is in
\* two of them, and the statistic is 3 + 1.
C4_Witness ==
    /\ rpc = "done"
    /\ DOMAIN prod.category_domains = AggCategories
    /\ \E d \in prod.all_domains : Holders(prod.category_domains, d) = 3
    /\ \E d \in prod.all_domains : Holders(prod.category_domains, d) = 2
    /\ prod.duplicate_count = 4

\* the sources of category c whose download succeeded
SuccessfulSources(c) ==
    {i \in 1..Len(blocklists) :
        blocklists[i].category = c /\ blocklists[i].response.status = "ok"}

\* C3: after create_production_lists the set of every category is the union
\* of the domain sets returned for the successfully normalized sources of
\* that category, also when two sources carry the same name.
C3_CategorySetIsUnionOfSources ==
    rpc = "done" =>
        \A c \in categories :
            prod.category_domains[c] =
                UNION {calls[i].result.domains : i \in SuccessfulSources(c)}

\* domain_stats after the first k sources were processed one after the other
\* in the order of the configuration
RECURSIVE SequentialDomainStats(_)
SequentialDomainStats(k) ==
    IF k = 0 THEN <<>>
    ELSE IF blocklists[k].response.status # "ok" THEN SequentialDomainStats(k - 1)
    ELSE StoreDomainStats(SequentialDomainStats(k - 1), blocklists[k].name,
            [ category |-> blocklists[k].category,
              domains |-> OptimizeCall(blocklists[k]).domains,
              count |-> Cardinality(OptimizeCall(blocklists[k]).domains) ])

\* C5: whatever the interleaving and the completion order of the workers, the
\* per-category sets, the global set and the overlap count are those of the
\* run that processes the sources one after the other.
C5_ResultIsOrderIndependent ==
    rpc = "done" =>
        prod = create_production_lists(SequentialDomainStats(Len(blocklists)),
                                       categories)

\* the positions of process_blocklist after optimize_blocklist has returned
AfterOptimize ==
    { "successful_read", "successful_write", "total_read", "total_write",
      "category_check", "category_init", "lists_read", "lists_write",
      "domains_read", "domains_write", "store", "done" }

\* C6: optimize_blocklist returns to its caller whatever fails inside it: a
\* call in which an exception was raised returns the one-line placeholder and
\* the empty set, none of the domains collected before; the caller goes on as
\* for a success, and when the run is over the calls for the other sources
\* have returned their domains.
C6_FaultYieldsPlaceholder ==
    \A i \in 1..Len(blocklists) :
        blocklists[i].response.status = "ok" =>
            /\ calls[i].pc \notin {"failed_read", "failed_write"}
            /\ (calls[i].pc \in AfterOptimize /\ blocklists[i].fault # "none")
                  => /\ calls[i].result.text = <<"#", " ", "E", "r", "r", "o", "r", " ", "p", "r", "o", "c", "e", "s", "s", "i", "n", "g", " ", "b", "l", "o", "c", "k", "l", "i", "s", "t">>
                     /\ calls[i].result.domains = {}
                     /\ calls[i].domain_count = 0
            /\ (rpc = "done" /\ blocklists[i].fault = "none")
                  => calls[i].result.domains =
                        ValidExtractions(LinesOf(blocklists[i].response.content))

\* C6 witness: the run is over; one source whose content holds valid domains
\* failed inside optimize_blocklist and returned none of them, another source
\* was normalized and its domains are in the global set.
C6_Witness ==
    /\ rpc = "done"
    /\ \E i, j \in 1..Len(blocklists) :
          /\ blocklists[i].fault = "serialize"
          /\ ValidExtractions(LinesOf(blocklists[i].response.content)) # {}
          /\ calls[i].result.domains = {}
          /\ blocklists[j].response.status = "ok"
          /\ blocklists[j].fault = "none"
          /\ calls[j].result.domains # {}
          /\ calls[j].result.domains \subseteq prod.all_domains

----------------------------------------------------------------------------
(* Claims about the serialized text                                        *)

\* how many lines the header of the returned text has: the preserved
\* metadata lines, or else the two generated lines
HeaderLength(l, f) ==
    IF f.preserve_metadata /\ Len(l.metadata) > 0 THEN Len(l.metadata) ELSE 2

\* the lines of the text after its header, the count line and the blank line
BodyOf(text, l, f) ==
    SubSeq(SplitLines(text), HeaderLength(l, f) + 3, Len(SplitLines(text)))

\* the call has returned a text in which no group section is written
UngroupedReturn ==
    /\ opc = "done"
    /\ raised = "none"
    /\ ~(in_flags.preserve_grouping /\ Len(loc.groups) > 0)

\* the domain of D with k - 1 domains of D before it in the order of str
KthDomain(D, k) == CHOOSE d \in D : Cardinality({e \in D : StrLess(e, d)}) = k - 1

\* the line the ungrouped body gives the domain d
UngroupedLine(l, d) ==
    IF l.preserve_format THEN l.domain_formats[d]
    ELSE IF l.adblock_style THEN <<"|", "|">> \o d \o <<"^">>
    ELSE <<"0", ".", "0", ".", "0", ".", "0", " ">> \o d

\* body lists the domains of D in ascending order, one line each
ListsAscending(body, D, l) ==
    /\ Len(body) = Cardinality(D)
    /\ \A k \in 1..Len(body) : body[k] = UngroupedLine(l, KthDomain(D, k))

\* C11: when grouping is not preserved or no group header was found, the body
\* of the text lists the domains of the returned set in ascending order, one
\* line per domain: the remembered line when preserve_format is in effect,
\* else `||d^` when adblock_style was detected, else `0.0.0.0 d`.
C11_UngroupedBodySortedAndRendered ==
    UngroupedReturn => ListsAscending(BodyOf(ret.text, loc, in_flags), ret.domains, loc)

\* C11 witness: a call without group sections and without preserve_format has
\* returned two domains, as two hosts lines.
C11_Witness ==
    /\ UngroupedReturn
    /\ ~loc.preserve_format
    /\ Cardinality(ret.domains) = 2
    /\ BodyOf(ret.text, loc, in_flags) = << <<"0", ".", "0", ".", "0", ".", "0", " ", "a", ".", "c", "o", "m">>, <<"0", ".", "0", ".", "0", ".", "0", " ", "b", ".", "c", "o", "m">> >>

\* a comment line as the second pass reads it: stripped, a leading `!` made `#`
AsComment(raw) ==
    IF Strip(raw)[1] = "!" THEN <<"#">> \o Tail(Strip(raw)) ELSE Strip(raw)

\* the indexes of the group headers among the lines ls, in their order
HeaderIndexes(ls) ==
    SelectSeq([i \in 1..Len(ls) |-> i],
              LAMBDA i : IsComment(Strip(ls[i])) /\ IsGroupLabel(AsComment(ls[i])))

\* the names of the group headers among the lines ls, in their order
HeaderNames(ls) ==
    [k \in 1..Len(HeaderIndexes(ls)) |-> GroupName(AsComment(ls[HeaderIndexes(ls)[k]]))]

\* the names of the sequence ns, each at the place of its first occurrence
FirstEncounters(ns) ==
    [k \in 1..Len(SelectSeq([i \in 1..Len(ns) |-> i],
                            LAMBDA i : \A j \in 1..(i - 1) : ns[j] # ns[i])) |->
        ns[SelectSeq([i \in 1..Len(ns) |-> i],
                     LAMBDA i : \A j \in 1..(i - 1) : ns[j] # ns[i])[k]]]

\* the place element i of m takes when m is put in ascending order, equal
\* elements in their order in m
Rank(m, i) ==
    Cardinality({j \in 1..Len(m) : StrLess(m[j], m[i])})
        + Cardinality({j \in 1..(i - 1) : m[j] = m[i]}) + 1

\* m in ascending order
Ascending(m) == [k \in 1..Len(m) |-> m[CHOOSE i \in 1..Len(m) : Rank(m, i) = k]]

\* the line a group section gives the domain d
GroupedLine(l, d) ==
    IF l.preserve_format THEN l.domain_formats[d] ELSE <<"0", ".", "0", ".", "0", ".", "0", " ">> \o d

\* the member list of the group called name
MembersOf(l, name) ==
    l.groups[CHOOSE k \in 1..Len(l.groups) : l.groups[k].name = name].members

\* the members of the group called name that are in the domain set
ValidMembers(l, name) == SelectSeq(MembersOf(l, name), LAMBDA d : d \in l.domains)

\* the section of the group called name: nothing without a member in the
\* domain set, else the header, the members in ascending order, a blank line
SectionOf(l, name) ==
    IF ValidMembers(l, name) = <<>> THEN <<>>
    ELSE << <<"#", "[">> \o name \o <<"]">> >>
            \o [k \in 1..Len(ValidMembers(l, name)) |->
                    GroupedLine(l, Ascending(ValidMembers(l, name))[k])]
            \o << <<>> >>

\* the sections of the groups called names[k..], one after the other
RECURSIVE SectionsOf(_, _, _)
SectionsOf(l, names, k) ==
    IF k > Len(names) THEN <<>>
    ELSE SectionOf(l, names[k]) \o SectionsOf(l, names, k + 1)

\* the domains of the set that are in no member list
InNoGroup(l) ==
    {d \in l.domains :
        \A k \in 1..Len(l.groups) :
            \A j \in 1..Len(l.groups[k].members) : l.groups[k].members[j] # d}

\* the `#[ungrouped]` section for the domains D: nothing for none
UngroupedSection(l, D) ==
    IF D = {} THEN <<>>
    ELSE << <<"#", "[", "u", "n", "g", "r", "o", "u", "p", "e", "d", "]">> >>
            \o [k \in 1..Cardinality(D) |-> GroupedLine(l, KthDomain(D, k))]

\* the call was asked to preserve grouping, has met a group header and has
\* returned
GroupedReturn ==
    /\ opc = "done"
    /\ raised = "none"
    /\ in_flags.preserve_grouping
    /\ HeaderNames(LinesOf(in_content)) # <<>>

\* C12: with preserve_grouping set and a group header captured, the body has
\* the named groups in the order in which their names were first met, without
\* the groups that have no member in the domain set, each `#[name]` header
\* followed by the members of the group in ascending order, and after them,
\* under `#[ungrouped]`, the domains of the set that are in no member list,
\* in ascending order; that last section is left out when there are none.
C12_GroupedBodyInFirstEncounterOrder ==
    GroupedReturn =>
        /\ [k \in 1..Len(loc.groups) |-> loc.groups[k].name]
              = FirstEncounters(HeaderNames(LinesOf(in_content)))
        /\ BodyOf(ret.text, loc, in_flags)
              = SplitLines(JoinLines(
                    SectionsOf(loc, FirstEncounters(HeaderNames(LinesOf(in_content))), 1)
                        \o UngroupedSection(loc, InNoGroup(loc))))

\* C12 witness: a call has returned two group sections, the first with two
\* members in ascending order, and an `#[ungrouped]` section.
C12_Witness ==
    /\ GroupedReturn
    /\ Len(BodyOf(ret.text, loc, in_flags)) = 9
    /\ BodyOf(ret.text, loc, in_flags)[1] = <<"#", "[", "a", "d", "s", "]">>
    /\ extract_domain_from_line(BodyOf(ret.text, loc, in_flags)[2]) = Some(<<"a", ".", "c", "o", "m">>)
    /\ extract_domain_from_line(BodyOf(ret.text, loc, in_flags)[3]) = Some(<<"b", ".", "c", "o", "m">>)
    /\ BodyOf(ret.text, loc, in_flags)[5] = <<"#", "[", "g", "]">>
    /\ BodyOf(ret.text, loc, in_flags)[8] = <<"#", "[", "u", "n", "g", "r", "o", "u", "p", "e", "d", "]">>

\* the first 200 lines among ls that are neither empty nor comments
NonCommentSample(ls) ==
    SubSeq(SelectSeq(ls, LAMBDA raw : Strip(raw) # <<>> /\ ~IsComment(Strip(raw))),
           1,
           Min(SampleSize,
               Len(SelectSeq(ls, LAMBDA raw : Strip(raw) # <<>> /\ ~IsComment(Strip(raw))))))

\* C13 as first stated: the flags are those of the vote over the first 200
\* lines that are neither comments nor blank, so that comments and blanks
\* before AdBlock-style lines do not keep adblock_style from being set.
C13_Original_SampleSkipsComments ==
    VoteTaken =>
        \A v \in {VotesOf(NonCommentSample(LinesOf(in_content)))} :
            StrictMajority(v.a, v.h, v.n, loc, in_flags)

\* the first pass counted n voting lines
Counted(l, n) == l.counts.total_lines = n

\* C13: the first pass examines the first 200 lines, comments and blanks
\* included: it counts the voting lines among them and no line after them, and
\* when the first 200 lines are all comments or blanks, adblock_style is false
\* and preserve_format is the caller's value whatever follows.
C13_CommentsConsumeSample ==
    VoteTaken =>
        /\ Counted(loc, Voters(SampleLines(LinesOf(in_content))))
        /\ Counted(loc, 0)
              => ~loc.adblock_style /\ loc.preserve_format = in_flags.preserve_format

\* C13 witness: a call has returned for a content of 200 comment lines and
\* an AdBlock-style line after them, with adblock_style false.
C13_Witness ==
    /\ opc = "done"
    /\ raised = "none"
    /\ Len(loc.lines) = SampleSize + 1
    /\ ContentLineIndexes(loc.lines) = {SampleSize + 1}
    /\ ADBLOCK_PATTERN(loc.lines[SampleSize + 1]) # None
    /\ Counted(loc, 0)
    /\ ~loc.adblock_style

\* the indexes up to n of the lines among ls that yield the valid domain d
OccurrencesOf(ls, d, n) ==
    {k \in ContentLineIndexes(ls) :
        /\ k <= n
        /\ extract_domain_from_line(Strip(ls[k])) = Some(d)
        /\ is_valid_domain(d)}

\* the line, as the second pass reads it, of the first of the lines 1..n of ls
\* that yield the domain d
FirstOccurrence(ls, d, n) ==
    Strip(ls[CHOOSE k \in OccurrencesOf(ls, d, n) :
                \A j \in OccurrencesOf(ls, d, n) : k <= j])

\* the second pass is under way or has ended without an exception
InOrAfterScan == opc = "scan" \/ (opc = "done" /\ raised = "none")

\* C14: with preserve_format in effect, the line remembered for a domain is
\* the line of its first occurrence in the input, at every point of the second
\* pass, and that line is in the body of the returned text.
C14_FirstOccurrenceRemembered ==
    InOrAfterScan /\ loc.preserve_format =>
        /\ \A d \in DOMAIN loc.domain_formats :
              loc.domain_formats[d] = FirstOccurrence(loc.lines, d, oi - 1)
        /\ opc = "done" =>
              \A d \in ret.domains :
                  \E k \in 1..Len(BodyOf(ret.text, loc, in_flags)) :
                      BodyOf(ret.text, loc, in_flags)[k]
                          = FirstOccurrence(loc.lines, d, Len(loc.lines))

\* the places of the domain d in the member lists of the groups
PlacesOf(groups, d) ==
    {p \in UNION {{<<k, j>> : j \in 1..Len(groups[k].members)} : k \in 1..Len(groups)} :
        groups[p[1]].members[p[2]] = d}

\* the header that opened the group in force at line n of ls, if any
GroupInForce(ls, n) ==
    IF \E i \in 1..(n - 1) : IsComment(Strip(ls[i])) /\ IsGroupLabel(AsComment(ls[i]))
    THEN Some(GroupName(AsComment(
            ls[CHOOSE i \in 1..(n - 1) :
                  /\ IsComment(Strip(ls[i])) /\ IsGroupLabel(AsComment(ls[i]))
                  /\ \A j \in (i + 1)..(n - 1) :
                        ~(IsComment(Strip(ls[j])) /\ IsGroupLabel(AsComment(ls[j])))])))
    ELSE None

\* C15: at every point of the second pass and at its end, each domain is at
\* no more than one place of the member lists of the groups, and that place
\* is in a group under whose header a line of the input declared it.
C15_DomainInAtMostOneGroup ==
    InOrAfterScan /\ in_flags.preserve_grouping =>
        \A d \in loc.domains :
            /\ Cardinality(PlacesOf(loc.groups, d)) <= 1
            /\ \A p \in PlacesOf(loc.groups, d) :
                  \E n \in OccurrencesOf(loc.lines, d, oi - 1) :
                      GroupInForce(loc.lines, n) = Some(loc.groups[p[1]].name)

\* the second conjunct of C15 alone
C15_MembersWereDeclared ==
    InOrAfterScan /\ in_flags.preserve_grouping =>
        \A d \in loc.domains :
            \A p \in PlacesOf(loc.groups, d) :
                \E n \in OccurrencesOf(loc.lines, d, oi - 1) :
                    GroupInForce(loc.lines, n) = Some(loc.groups[p[1]].name)

\* line k of the body is a section header
IsSectionHeader(body, k) == StartsWith(body[k], <<"#", "[">>)

\* line k of the body is in the section of the header line hdr
InSection(body, k, hdr) ==
    \E h \in 1..(k - 1) :
        /\ body[h] = hdr
        /\ \A j \in (h + 1)..k : ~IsSectionHeader(body, j)

\* the domain d is a member of the group called name
IsMember(groups, name, d) ==
    \E k \in 1..Len(groups) :
        /\ groups[k].name = name
        /\ \E j \in 1..Len(groups[k].members) : groups[k].members[j] = d

\* the lines of ls that yield a valid domain under a group header
DeclaredUnderHeader(ls) ==
    {n \in ContentLineIndexes(ls) :
        /\ GroupInForce(ls, n) # None
        /\ extract_domain_from_line(Strip(ls[n])) # None
        /\ is_valid_domain(extract_domain_from_line(Strip(ls[n]))[1])}

\* the domain d is a member of the group called name and the body has its
\* line in the section `#[name]`
MemberAndEmitted(l, body, name, d) ==
    /\ IsMember(l.groups, name, d)
    /\ \E k \in 1..Len(body) :
          /\ body[k] = GroupedLine(l, d)
          /\ InSection(body, k, <<"#", "[">> \o name \o <<"]">>)

\* C16: with preserve_grouping set, every valid domain extracted from a line
\* between a group header and the next one (or the end of the input) is a
\* member of the group the header names and is emitted in the `#[name]`
\* section of that group, whatever the header: empty brackets and a name that
\* comes back included.
C16_DomainsFollowTheirHeader ==
    opc = "done" /\ raised = "none" /\ in_flags.preserve_grouping =>
        \A n \in DeclaredUnderHeader(loc.lines) :
            MemberAndEmitted(loc, BodyOf(ret.text, loc, in_flags),
                             GroupInForce(loc.lines, n)[1],
                             extract_domain_from_line(Strip(loc.lines[n]))[1])

\* the headers of C16 that fail: empty brackets, and a name that comes back
PlainHeaders(ls) ==
    /\ \A k \in 1..Len(HeaderNames(ls)) : HeaderNames(ls)[k] # <<>>
    /\ FirstEncounters(HeaderNames(ls)) = HeaderNames(ls)

\* C16 for inputs whose headers all have a name and all differ
C16_HoldsForPlainHeaders ==
    opc = "done" /\ raised = "none" /\ in_flags.preserve_grouping
        /\ PlainHeaders(loc.lines) =>
        \A n \in DeclaredUnderHeader(loc.lines) :
            MemberAndEmitted(loc, BodyOf(ret.text, loc, in_flags),
                             GroupInForce(loc.lines, n)[1],
                             extract_domain_from_line(Strip(loc.lines[n]))[1])

\* the domain d is rendered by exactly one line of the body, every line of the
\* body that is neither blank nor a comment renders a domain of D, and the
\* count line announces the number of those lines
OneLinePerDomain(text, body, D, h) ==
    /\ \A d \in D :
          Cardinality({k \in ContentLineIndexes(body) :
                          extract_domain_from_line(body[k]) = Some(d)}) = 1
    /\ \A k \in ContentLineIndexes(body) :
          \E d \in D : extract_domain_from_line(body[k]) = Some(d)
    /\ SplitLines(text)[h + 1]
          = <<"#", " ", "T", "o", "t", "a", "l", " ", "d", "o", "m", "a", "i", "n", "s", ":", " ">> \o IntToStr(Cardinality(ContentLineIndexes(body)))

\* C17: in the returned text every domain of the returned set is rendered by
\* exactly one non-comment line, there is no other non-comment line, and the
\* number of those lines is the number the `# Total domains: N` line
\* announces, in the ungrouped and in the grouped serialization.
C17_OneLinePerDomain ==
    opc = "done" /\ raised = "none" =>
        OneLinePerDomain(ret.text, BodyOf(ret.text, loc, in_flags), ret.domains,
                         HeaderLength(loc, in_flags))

\* C17 for the returns in which no domain is at two places of the member lists
C17_HoldsWithoutRepeatedMembers ==
    opc = "done" /\ raised = "none"
        /\ (\A d \in loc.domains : Cardinality(PlacesOf(loc.groups, d)) <= 1) =>
        OneLinePerDomain(ret.text, BodyOf(ret.text, loc, in_flags), ret.domains,
                         HeaderLength(loc, in_flags))

\* the sources whose processing ended with success
Successful == {i \in 1..Len(blocklists) : blocklists[i].response.status = "ok"}

\* the sum of the domain counts of the sources I
DomainCountSum(I) == SumOver(I, [i \in 1..Len(blocklists) |-> calls[i].domain_count])

\* the statistics count every source once: no update is lost
StatsAreExact ==
    /\ stats.successful + stats.failed = stats.total_lists
    /\ stats.successful = Cardinality(Successful)
    /\ stats.total_domains = DomainCountSum(Successful)
    /\ \A c \in categories :
          SuccessfulSources(c) # {} =>
              /\ c \in DOMAIN stats.categories
              /\ stats.categories[c].lists = Cardinality(SuccessfulSources(c))
              /\ stats.categories[c].domains = DomainCountSum(SuccessfulSources(c))

\* C18: with more than one worker thread, whatever the interleaving of the
\* reads and writes of the shared statistics, after all workers have finished
\* successful + failed is total_lists, total_domains is the sum of the domain
\* counts of the successful sources, and the `lists` and `domains` counters of
\* every category are the number of its successful sources and the sum of
\* their domain counts.
C18_NoLostUpdate == rpc = "done" /\ threads > 1 => StatsAreExact

\* C18 for the sequential loop: one source after the other
C18_HoldsSequentially == rpc = "done" /\ threads = 1 => StatsAreExact

====
